---- MODULE Spec2Model ----
(***************************************************************************)
(* A model of WordleBot.py: the candidate filter _is_word_still_possible,  *)
(* filter_possible_words, make_guess and the loop of start_game.           *)
(* Words are sequences of one-character strings; a consumed letter (None)  *)
(* is the string "None", which is no letter.                               *)
(***************************************************************************)
EXTENDS Integers, Sequences, FiniteSets, TLC

VARIABLES
    possible_words,   \* self.possible_words: the candidate list
    current_guess,    \* self.current_guess
    attempt_number,   \* self.attempt_number
    game_status,      \* self.game_status
    last_feedback,    \* self.last_feedback
    pc,               \* position in start_game / which call is pending
    dictionary,       \* what _load_word_list returned at construction
    history,          \* the (guess, feedback) pairs the list was filtered with
    submitted,        \* the guesses passed to WordleAPI.guess, in order
    last_call,        \* how the latest WordleAPI.guess call ended
    word,             \* argument of a direct call of _is_word_still_possible
    guess,            \* argument of that call
    feedback,         \* argument of that call
    result,           \* where that call returned and with what
    calls             \* direct calls of filter_possible_words made so far

vars == <<possible_words, current_guess, attempt_number, game_status,
          last_feedback, pc, dictionary, history, submitted, last_call,
          word, guess, feedback, result, calls>>

gameVars == <<possible_words, current_guess, attempt_number, game_status,
              last_feedback, dictionary, history, submitted, last_call>>

fnVars == <<word, guess, feedback, result>>

NoCall == [at |-> "none", pos |-> 0, value |-> FALSE]

----------------------------------------------------------------------------
(* Constants of the program *)

WORD_LENGTH == 5

MAX_ATTEMPTS == 6

OPTIMAL_FIRST_GUESS == <<"s", "a", "l", "e", "t">>

None == "None"

Positions == 1..WORD_LENGTH

----------------------------------------------------------------------------
(* Bounds of the model *)

\* how many letters of Alphabet the directly called function is tried on
NumLetters == 2

\* the longest dictionary _load_word_list returns
MaxWords == 7

\* how often filter_possible_words is called directly on one bot
MaxCalls == 2

Alphabet == <<"a", "b", "c", "d">>

Letters == {Alphabet[i] : i \in 1..NumLetters}

Words == [Positions -> Letters]

LetterNo(c) == CHOOSE n \in 1..Len(Alphabet) : Alphabet[n] = c

\* _is_word_still_possible only compares letters for equality, so a guess is
\* taken up to renaming of letters: its letters appear in Alphabet order.
FirstUse(g) ==
    \A i \in Positions :
        \/ LetterNo(g[i]) = 1
        \/ \E j \in 1..(i - 1) : LetterNo(g[j]) >= LetterNo(g[i]) - 1

Guesses == {g \in Words : FirstUse(g)}

Symbols == {"G", "Y", "R"}

Feedbacks == [Positions -> Symbols]

\* the lines of the word list file the dictionaries are cut from
WordList ==
    << <<"s", "p", "e", "e", "d">>, <<"e", "r", "a", "s", "e">>,
       <<"s", "t", "e", "a", "l">>, <<"s", "l", "a", "t", "e">>,
       <<"a", "r", "e", "n", "a">>,
       <<"s", "a", "l", "e", "t">>, <<"c", "r", "a", "n", "e">>,
       <<"t", "r", "a", "c", "e">>, <<"t", "r", "a", "c", "e">>,
       <<"b", "o", "u", "n", "d">>, <<"f", "o", "u", "n", "d">>,
       <<"h", "o", "u", "n", "d">>, <<"m", "o", "u", "n", "d">>,
       <<"p", "o", "u", "n", "d">>, <<"r", "o", "u", "n", "d">>,
       <<"w", "o", "u", "n", "d">> >>

Dictionaries ==
    {SubSeq(WordList, p[1], p[1] + p[2] - 1) :
        p \in {q \in (1..Len(WordList)) \X (0..MaxWords) :
                  q[1] + q[2] - 1 <= Len(WordList)}}

DictionaryWords == {WordList[k] : k \in 1..Len(WordList)}

\* what WordleAPI.guess returns when it is not a WORD_LENGTH string over G, Y, R:
\* None (no "feedback" key), "", a 4-character and a 6-character string
NoFeedback == <<None>>

Malformed ==
    {NoFeedback, <<>>, <<"G", "G", "G", "G">>, <<"G", "Y", "R", "G", "G", "G">>}

----------------------------------------------------------------------------
(* _is_word_still_possible *)

\* x in chars
In(x, chars) == \E j \in 1..Len(chars) : chars[j] = x

\* chars.index(x): the first position holding x
Index(x, chars) == CHOOSE j \in 1..Len(chars) :
                      /\ chars[j] = x
                      /\ \A k \in 1..(j - 1) : chars[k] # x

\* GreenConsumed without lines 109-110: a Green match consumes nothing
GreenConsumedKept(chars, fb) == chars

\* word_chars / guess_chars after the first pass: Green positions are None
GreenConsumed(chars, fb) ==
    [i \in Positions |-> IF fb[i] = "G" THEN None ELSE chars[i]]

\* First pass: the Green positions at which it returns False
GreenFail(w, g, fb) == {i \in Positions : fb[i] = "G" /\ w[i] # g[i]}

\* YellowPass without line 119: a Yellow match consumes no occurrence
RECURSIVE YellowPassNoConsume(_, _, _, _)
YellowPassNoConsume(wc, gc, fb, i) ==
    IF i > WORD_LENGTH THEN [at |-> "ok", pos |-> 0, wc |-> wc]
    ELSE IF fb[i] = "Y"
         THEN IF wc[i] = gc[i] THEN [at |-> "yellow_here", pos |-> i, wc |-> wc]
              ELSE IF ~In(gc[i], wc)
                   THEN [at |-> "yellow_absent", pos |-> i, wc |-> wc]
                   ELSE YellowPassNoConsume(wc, gc, fb, i + 1)
         ELSE YellowPassNoConsume(wc, gc, fb, i + 1)

\* Second pass from position i on; wc is word_chars so far. Gives where the
\* pass returned False ("yellow_here" line 116, "yellow_absent" line 118), or
\* "ok" with word_chars as the pass leaves it.
RECURSIVE YellowPass(_, _, _, _)

YellowPass(wc, gc, fb, i) ==
    IF i > WORD_LENGTH THEN [at |-> "ok", pos |-> 0, wc |-> wc]
    ELSE IF fb[i] = "Y"
         THEN IF wc[i] = gc[i] THEN [at |-> "yellow_here", pos |-> i, wc |-> wc]
              ELSE IF ~In(gc[i], wc)
                   THEN [at |-> "yellow_absent", pos |-> i, wc |-> wc]
                   ELSE YellowPass([wc EXCEPT ![Index(gc[i], wc)] = None],
                                   gc, fb, i + 1)
         ELSE YellowPass(wc, gc, fb, i + 1)

\* line 123 testing for a symbol the feedback never holds: Grey is ignored
GreyFailWrongSymbol(wc, gc, fb) ==
    {i \in Positions : fb[i] = "X" /\ In(gc[i], wc)}

\* Third pass: the Grey positions at which it returns False
GreyFail(wc, gc, fb) == {i \in Positions : fb[i] = "R" /\ In(gc[i], wc)}

Min(S) == CHOOSE x \in S : \A y \in S : x <= y

\* ReturnOf without lines 98-99: the guessed word is not rejected as such
ReturnOfNoSelfCheck(w, g, fb) ==
    IF GreenFail(w, g, fb) # {}
    THEN [at |-> "green", pos |-> Min(GreenFail(w, g, fb)), value |-> FALSE]
    ELSE LET gc == GreenConsumed(g, fb)
             y  == YellowPass(GreenConsumed(w, fb), gc, fb, 1)
         IN  IF y.at # "ok" THEN [at |-> y.at, pos |-> y.pos, value |-> FALSE]
             ELSE IF GreyFail(y.wc, gc, fb) # {}
             THEN [at |-> "grey", pos |-> Min(GreyFail(y.wc, gc, fb)),
                   value |-> FALSE]
             ELSE [at |-> "end", pos |-> 0, value |-> TRUE]

\* The return statement the call leaves by, the position it was looking at,
\* and the value returned
ReturnOf(w, g, fb) ==
    IF w = g THEN [at |-> "same", pos |-> 0, value |-> FALSE]
    ELSE IF GreenFail(w, g, fb) # {}
    THEN [at |-> "green", pos |-> Min(GreenFail(w, g, fb)), value |-> FALSE]
    ELSE LET gc == GreenConsumed(g, fb)
             y  == YellowPass(GreenConsumed(w, fb), gc, fb, 1)
         IN  IF y.at # "ok" THEN [at |-> y.at, pos |-> y.pos, value |-> FALSE]
             ELSE IF GreyFail(y.wc, gc, fb) # {}
             THEN [at |-> "grey", pos |-> Min(GreyFail(y.wc, gc, fb)),
                   value |-> FALSE]
             ELSE [at |-> "end", pos |-> 0, value |-> TRUE]

IsWordStillPossible(w, g, fb) == ReturnOf(w, g, fb).value

----------------------------------------------------------------------------
(* filter_possible_words *)

\* list without its element at position i
Without(list, i) == SubSeq(list, 1, i - 1) \o SubSeq(list, i + 1, Len(list))

\* filter_possible_words written as a loop over the list that removes from the
\* list it iterates: after a removal the iterator skips the next word
RECURSIVE RemoveFrom(_, _, _, _)
RemoveFrom(list, g, fb, i) ==
    IF i > Len(list) THEN list
    ELSE IF IsWordStillPossible(list[i], g, fb)
         THEN RemoveFrom(list, g, fb, i + 1)
         ELSE RemoveFrom(Without(list, i), g, fb, i + 1)

FilterRemovingInLoop(list, g, fb) == RemoveFrom(list, g, fb, 1)

\* filter_possible_words with += for =: the survivors are appended to the list
FilterAppending(list, g, fb) ==
    list \o SelectSeq(list, LAMBDA w : IsWordStillPossible(w, g, fb))

\* the list comprehension: the words of list that are still possible, in order
FilterPossibleWords(list, g, fb) ==
    SelectSeq(list, LAMBDA w : IsWordStillPossible(w, g, fb))

----------------------------------------------------------------------------
(* The game: __init__, make_guess and the loop of start_game *)

InitGame ==
    /\ dictionary \in Dictionaries
    /\ possible_words = dictionary
    /\ current_guess = OPTIMAL_FIRST_GUESS
    /\ attempt_number = 0
    /\ game_status = "PLAYING"
    /\ last_feedback = <<>>
    /\ pc = "loop"
    /\ history = <<>>
    /\ submitted = <<>>
    /\ last_call = "none"
    /\ word = <<>> /\ guess = <<>> /\ feedback = <<>>
    /\ result = NoCall
    /\ calls = 0

\* line 147 with < for !=: a feedback that is too long goes through
InvalidShortOnly(fb) == fb = NoFeedback \/ fb = <<>> \/ Len(fb) < WORD_LENGTH

\* not self.last_feedback or len(self.last_feedback) != WORD_LENGTH
Invalid(fb) == fb = NoFeedback \/ fb = <<>> \/ Len(fb) # WORD_LENGTH

AllGreen == [i \in Positions |-> "G"]

\* line 152 comparing with "g" * WORD_LENGTH: all-Green is never a win
StatusAfterNoWin(fb) ==
    IF Invalid(fb) THEN "ERROR"
    ELSE "PLAYING"

\* make_guess once WordleAPI.guess has returned fb
StatusAfter(fb) ==
    IF Invalid(fb) THEN "ERROR"
    ELSE IF fb = AllGreen THEN "WON"
    ELSE "PLAYING"

\* start_game with lines 169-170 leaving the loop on ERROR only: a won round
\* goes on to filter
MakeGuessReturnsBreakOnError ==
    /\ pc = "loop"
    /\ game_status = "PLAYING" /\ attempt_number < MAX_ATTEMPTS
    /\ IF current_guess = <<>>
       THEN /\ game_status' = "LOST"
            /\ pc' = "done"
            /\ UNCHANGED <<last_feedback, submitted, last_call>>
       ELSE \E fb \in Feedbacks \cup Malformed :
              /\ submitted' = Append(submitted, current_guess)
              /\ last_call' = "feedback"
              /\ last_feedback' = fb
              /\ game_status' = StatusAfter(fb)
              /\ pc' = IF StatusAfter(fb) = "ERROR" THEN "done" ELSE "filter"
    /\ UNCHANGED <<possible_words, current_guess, attempt_number, dictionary,
                   history>>
    /\ UNCHANGED <<fnVars, calls>>

\* The loop test holds; make_guess runs and WordleAPI.guess returns fb
MakeGuessReturns ==
    /\ pc = "loop"
    /\ game_status = "PLAYING" /\ attempt_number < MAX_ATTEMPTS
    /\ IF current_guess = <<>>
       THEN /\ game_status' = "LOST"
            /\ pc' = "done"
            /\ UNCHANGED <<last_feedback, submitted, last_call>>
       ELSE \E fb \in Feedbacks \cup Malformed :
              /\ submitted' = Append(submitted, current_guess)
              /\ last_call' = "feedback"
              /\ last_feedback' = fb
              /\ game_status' = StatusAfter(fb)
              /\ pc' = IF StatusAfter(fb) = "PLAYING" THEN "filter" ELSE "done"
    /\ UNCHANGED <<possible_words, current_guess, attempt_number, dictionary,
                   history>>
    /\ UNCHANGED <<fnVars, calls>>

\* make_guess without lines 156-157: WordleAPIError leaves start_game
MakeGuessRaisesUncaught ==
    /\ pc = "loop"
    /\ game_status = "PLAYING" /\ attempt_number < MAX_ATTEMPTS
    /\ current_guess # <<>>
    /\ submitted' = Append(submitted, current_guess)
    /\ last_call' = "error"
    /\ pc' = "escaped"
    /\ UNCHANGED <<possible_words, current_guess, attempt_number, dictionary,
                   history, last_feedback, game_status>>
    /\ UNCHANGED <<fnVars, calls>>

\* The loop test holds; make_guess runs and WordleAPI.guess raises
\* WordleAPIError (a timeout or a failed request in _post_request)
MakeGuessRaises ==
    /\ pc = "loop"
    /\ game_status = "PLAYING" /\ attempt_number < MAX_ATTEMPTS
    /\ current_guess # <<>>
    /\ submitted' = Append(submitted, current_guess)
    /\ last_call' = "error"
    /\ game_status' = "ERROR"
    /\ pc' = "done"
    /\ UNCHANGED <<possible_words, current_guess, attempt_number, dictionary,
                   history, last_feedback>>
    /\ UNCHANGED <<fnVars, calls>>

\* self.filter_possible_words() in the loop
FilterStep ==
    /\ pc = "filter"
    /\ possible_words' =
           FilterPossibleWords(possible_words, current_guess, last_feedback)
    /\ history' = Append(history, <<current_guess, last_feedback>>)
    /\ pc' = "select"
    /\ UNCHANGED <<current_guess, attempt_number, game_status, last_feedback,
                   dictionary, submitted, last_call>>
    /\ UNCHANGED <<fnVars, calls>>

\* lines 174-177 reporting an empty list as a fault: ERROR for LOST
SelectStepStumpedIsError ==
    /\ pc = "select"
    /\ IF possible_words = <<>>
       THEN /\ game_status' = "ERROR"
            /\ pc' = "done"
            /\ UNCHANGED <<current_guess, attempt_number>>
       ELSE /\ current_guess' = possible_words[1]
            /\ attempt_number' = attempt_number + 1
            /\ pc' = "loop"
            /\ UNCHANGED game_status
    /\ UNCHANGED <<possible_words, last_feedback, dictionary, history,
                   submitted, last_call>>
    /\ UNCHANGED <<fnVars, calls>>

\* line 179 taking possible_words[-1]: the last survivor, not the first
SelectStepLast ==
    /\ pc = "select"
    /\ IF possible_words = <<>>
       THEN /\ game_status' = "LOST"
            /\ pc' = "done"
            /\ UNCHANGED <<current_guess, attempt_number>>
       ELSE /\ current_guess' = possible_words[Len(possible_words)]
            /\ attempt_number' = attempt_number + 1
            /\ pc' = "loop"
            /\ UNCHANGED game_status
    /\ UNCHANGED <<possible_words, last_feedback, dictionary, history,
                   submitted, last_call>>
    /\ UNCHANGED <<fnVars, calls>>

\* the loop body without line 180: the attempt is not counted
SelectStepNoIncrement ==
    /\ pc = "select"
    /\ IF possible_words = <<>>
       THEN /\ game_status' = "LOST"
            /\ pc' = "done"
            /\ UNCHANGED <<current_guess, attempt_number>>
       ELSE /\ current_guess' = possible_words[1]
            /\ pc' = "loop"
            /\ UNCHANGED <<game_status, attempt_number>>
    /\ UNCHANGED <<possible_words, last_feedback, dictionary, history,
                   submitted, last_call>>
    /\ UNCHANGED <<fnVars, calls>>

\* The rest of the loop body: stumped, or the next guess
SelectStep ==
    /\ pc = "select"
    /\ IF possible_words = <<>>
       THEN /\ game_status' = "LOST"
            /\ pc' = "done"
            /\ UNCHANGED <<current_guess, attempt_number>>
       ELSE /\ current_guess' = possible_words[1]
            /\ attempt_number' = attempt_number + 1
            /\ pc' = "loop"
            /\ UNCHANGED game_status
    /\ UNCHANGED <<possible_words, last_feedback, dictionary, history,
                   submitted, last_call>>
    /\ UNCHANGED <<fnVars, calls>>

\* start_game declaring LOST when the attempts have run out
LoopExitLost ==
    /\ pc = "loop"
    /\ ~(game_status = "PLAYING" /\ attempt_number < MAX_ATTEMPTS)
    /\ pc' = "done"
    /\ game_status' = IF game_status = "PLAYING" THEN "LOST" ELSE game_status
    /\ UNCHANGED <<possible_words, current_guess, attempt_number,
                   last_feedback, dictionary, history, submitted, last_call>>
    /\ UNCHANGED <<fnVars, calls>>

\* The loop test fails: start_game returns
LoopExit ==
    /\ pc = "loop"
    /\ ~(game_status = "PLAYING" /\ attempt_number < MAX_ATTEMPTS)
    /\ pc' = "done"
    /\ UNCHANGED gameVars
    /\ UNCHANGED <<fnVars, calls>>

----------------------------------------------------------------------------
(* Direct calls of _is_word_still_possible on every input of the bounds *)

InitFn ==
    /\ word \in Words
    /\ guess \in Guesses
    /\ feedback \in Feedbacks
    /\ result = NoCall
    /\ pc = "call"
    /\ possible_words = <<>>
    /\ current_guess = OPTIMAL_FIRST_GUESS
    /\ attempt_number = 0
    /\ game_status = "PLAYING"
    /\ last_feedback = <<>>
    /\ dictionary = <<>>
    /\ history = <<>>
    /\ submitted = <<>>
    /\ last_call = "none"
    /\ calls = 0

CallIsWordStillPossible ==
    /\ pc = "call"
    /\ result' = ReturnOf(word, guess, feedback)
    /\ pc' = "returned"
    /\ UNCHANGED <<word, guess, feedback, calls>>
    /\ UNCHANGED gameVars

----------------------------------------------------------------------------
(* Direct calls of filter_possible_words, on a bot holding any list, guess  *)
(* and feedback of the bounds                                               *)

InitFilter ==
    /\ dictionary \in Dictionaries
    /\ possible_words = dictionary
    /\ current_guess \in DictionaryWords
    /\ last_feedback \in Feedbacks
    /\ attempt_number = 0
    /\ game_status = "PLAYING"
    /\ pc = "direct"
    /\ history = <<>>
    /\ submitted = <<>>
    /\ last_call = "none"
    /\ word = <<>> /\ guess = <<>> /\ feedback = <<>>
    /\ result = NoCall
    /\ calls = 0

CallFilterPossibleWords ==
    /\ pc = "direct"
    /\ calls < MaxCalls
    /\ possible_words' =
           FilterPossibleWords(possible_words, current_guess, last_feedback)
    /\ calls' = calls + 1
    /\ UNCHANGED <<current_guess, attempt_number, game_status, last_feedback,
                   pc, dictionary, history, submitted, last_call>>
    /\ UNCHANGED fnVars

----------------------------------------------------------------------------

Init == InitGame \/ InitFn \/ InitFilter

Next ==
    \/ MakeGuessReturns
    \/ MakeGuessRaises
    \/ FilterStep
    \/ SelectStep
    \/ LoopExit
    \/ CallIsWordStillPossible
    \/ CallFilterPossibleWords

\* One game on its own. start_game is a single thread that runs on, and every
\* WordleAPI.guess call returns or raises (requests is given timeout=10), so
\* a step that can be taken is taken.
NextGame ==
    \/ MakeGuessReturns
    \/ MakeGuessRaises
    \/ FilterStep
    \/ SelectStep
    \/ LoopExit

FairGame == InitGame /\ [][NextGame]_vars /\ WF_vars(NextGame)

Spec == Init /\ [][Next]_vars

----------------------------------------------------------------------------
(* What the claims speak of *)

\* occurrences of letter c in the sequence w
Count(c, w) == Cardinality({i \in 1..Len(w) : w[i] = c})

\* positions of guess g holding c with Green or Yellow feedback
NonGrey(c, g, fb) ==
    Cardinality({i \in Positions : g[i] = c /\ fb[i] \in {"G", "Y"}})

\* positions of guess g holding c with Grey feedback
Grey(c, g, fb) == Cardinality({i \in Positions : g[i] = c /\ fb[i] = "R"})

\* The score of guess g against a secret, by the data model: Green where the
\* letters agree; then, left to right, Yellow while an occurrence of the letter
\* in the secret is not yet accounted for, else Grey.
RECURSIVE ScoreFrom(_, _, _, _)
ScoreFrom(rest, g, fb, i) ==
    IF i > WORD_LENGTH THEN fb
    ELSE IF fb[i] = "G" THEN ScoreFrom(rest, g, fb, i + 1)
    ELSE IF In(g[i], rest)
         THEN ScoreFrom([rest EXCEPT ![Index(g[i], rest)] = None], g,
                        [fb EXCEPT ![i] = "Y"], i + 1)
         ELSE ScoreFrom(rest, g, [fb EXCEPT ![i] = "R"], i + 1)

Score(secret, g) ==
    ScoreFrom([i \in Positions |-> IF secret[i] = g[i] THEN None ELSE secret[i]],
              g,
              [i \in Positions |-> IF secret[i] = g[i] THEN "G" ELSE "R"],
              1)

Returned == pc = "returned"

----------------------------------------------------------------------------
(* Claims *)

\* C1: for word # guess, _is_word_still_possible(word, guess, feedback) is
\* true if and only if guessing `guess` against the secret `word` scores
\* exactly `feedback`.
C1_TrueIffScore ==
    Returned /\ word # guess =>
        (result.value <=> feedback = Score(word, guess))

\* C2: a Yellow at a position where word and guess hold the same letter makes
\* _is_word_still_possible return false, whatever earlier Yellows consumed.
C2_YellowOnEqualRejected ==
    Returned /\ (\E i \in Positions : feedback[i] = "Y" /\ word[i] = guess[i])
        => ~result.value

\* C4: a letter with more Green or Yellow marks in the guess than occurrences
\* in the word makes _is_word_still_possible return false; so a letter twice
\* in the guess and once in the word is accepted only with exactly one
\* Green/Yellow and one Grey.
C4_OverCountRejected ==
    Returned =>
        \A c \in Letters :
            /\ NonGrey(c, guess, feedback) > Count(c, word) => ~result.value
            /\ Count(c, guess) = 2 /\ Count(c, word) = 1 /\ result.value
                   => /\ NonGrey(c, guess, feedback) = 1
                      /\ Grey(c, guess, feedback) = 1

\* C4's case: a letter twice in the guess, once in the word, marked Yellow
\* twice, gets past the Green pass and is rejected by the Yellow pass
C4_Witness ==
    /\ Returned /\ word # guess
    /\ result.at = "yellow_absent"
    /\ \E c \in Letters :
          /\ Count(c, guess) = 2 /\ Count(c, word) = 1
          /\ NonGrey(c, guess, feedback) = 2

\* C5: for word # guess, a word is accepted only if every letter that is Grey
\* somewhere in the guess occurs in the word exactly as often as it is marked
\* Green or Yellow; and the Grey pass rejects at a position only if the word
\* holds more of that letter than the Green and Yellow marks account for.
C5_GreyLast ==
    Returned /\ word # guess =>
        /\ result.value =>
              \A i \in Positions :
                  feedback[i] = "R" =>
                      Count(guess[i], word) = NonGrey(guess[i], guess, feedback)
        /\ result.at = "grey" =>
              Count(guess[result.pos], word)
                  > NonGrey(guess[result.pos], guess, feedback)

\* C5's case: a letter Green at one index and Grey at another, accepted
C5_Witness ==
    /\ Returned /\ result.value
    /\ \E i, j \in Positions :
          /\ guess[i] = guess[j]
          /\ feedback[i] = "G" /\ feedback[j] = "R"

\* a is b with some elements left out, the order kept
RECURSIVE IsSubList(_, _)
IsSubList(a, b) ==
    IF a = <<>> THEN TRUE
    ELSE IF b = <<>> THEN FALSE
    ELSE IF Head(a) = Head(b) THEN IsSubList(Tail(a), Tail(b))
    ELSE IsSubList(a, Tail(b))

\* the pair of round k passes word w
PassesRound(w, k) == IsWordStillPossible(w, history[k][1], history[k][2])

\* the word guessed in the latest filtering round
LastGuessed == history[Len(history)][1]

\* feedback that is absent, empty or not WORD_LENGTH long
IsMalformed(fb) == fb = NoFeedback \/ fb = <<>> \/ Len(fb) # WORD_LENGTH

\* C3: once the list has been filtered, it is exactly the dictionary words
\* that pass _is_word_still_possible for the (guess, feedback) pair of every
\* round filtered so far.
C3_CumulativeFilter ==
    history # <<>> =>
        possible_words =
            SelectSeq(dictionary,
                      LAMBDA w : \A k \in 1..Len(history) : PassesRound(w, k))

\* C3's case: after two rounds a word that the latest pair alone would keep
\* is out because of the first pair
C3_Witness ==
    /\ Len(history) = 2 /\ possible_words # <<>>
    /\ \E n \in 1..Len(dictionary) :
          ~PassesRound(dictionary[n], 1) /\ PassesRound(dictionary[n], 2)

\* C6: _is_word_still_possible(guess, guess, feedback) is false for every
\* guess and feedback; after a filtering round, in the game or by a direct
\* call, the word just guessed is not in the candidate list.
C6_SelfExclusion ==
    /\ Returned /\ word = guess => ~result.value
    /\ history # <<>> => ~In(LastGuessed, possible_words)
    /\ pc = "direct" /\ calls > 0 => ~In(current_guess, possible_words)

\* C6's case: the guess came from the dictionary and words are left
C6_Witness ==
    /\ Len(history) >= 2 /\ In(LastGuessed, dictionary)
    /\ possible_words # <<>>

\* C7: no step makes the candidate list grow: the list after a step is a
\* sub-list of the list before it.
C7_NeverGrows == [][IsSubList(possible_words', possible_words)]_vars

\* C7's case: a third round has filtered the list and left some of it
C7_Witness ==
    /\ Len(history) = 3 /\ pc = "select"
    /\ possible_words # <<>> /\ Len(possible_words) < Len(dictionary)

\* C8: a second filter_possible_words with the same current_guess and
\* last_feedback leaves the candidate list as the first left it.
C8_Idempotent ==
    [][pc = "direct" /\ calls = 1 => possible_words' = possible_words]_vars

\* C8's case: filtered twice, the first call having removed some words only
C8_Witness ==
    /\ pc = "direct" /\ calls = 2
    /\ possible_words # <<>> /\ Len(possible_words) < Len(dictionary)

\* C9: when the submission returns malformed feedback the status becomes
\* ERROR, the loop stops, the candidate list is not filtered, and nothing is
\* submitted afterwards.
C9_MalformedFeedback ==
    [][/\ submitted' # submitted /\ last_call' = "feedback"
          /\ IsMalformed(last_feedback')
          => /\ game_status' = "ERROR" /\ pc' = "done"
             /\ possible_words' = possible_words /\ history' = history
       /\ game_status = "ERROR" => submitted' = submitted]_vars

\* C9's case: a 4-character feedback in a later round
C9_Witness ==
    /\ last_call = "feedback" /\ Len(last_feedback) = 4
    /\ game_status = "ERROR" /\ pc = "done" /\ attempt_number >= 1

\* C10: when the submission raises WordleAPIError the status becomes ERROR in
\* that round, the call is made once, start_game returns normally and nothing
\* is submitted afterwards.
C10_TransportFailure ==
    [][/\ submitted' # submitted /\ last_call' = "error"
          => /\ game_status' = "ERROR" /\ pc' = "done"
             /\ Len(submitted') = Len(submitted) + 1
       /\ game_status = "ERROR" => submitted' = submitted /\ pc' # "escaped"]_vars

\* C10's case: the submission fails in a later round
C10_Witness ==
    /\ last_call = "error" /\ game_status = "ERROR" /\ pc = "done"
    /\ attempt_number >= 1

\* WORD_LENGTH Greens
FiveGreens == <<"G", "G", "G", "G", "G">>

\* the step is a call of WordleAPI.guess that returned fb
Receives(fb) ==
    /\ submitted' # submitted /\ last_call' = "feedback"
    /\ last_feedback' = fb

\* C11: when the filtering of a round with well-formed, not all-Green
\* feedback leaves the candidate list empty, the status becomes LOST, the
\* loop stops, and no other guess is selected or submitted.
C11_Exhaustion ==
    [][/\ pc = "select" /\ possible_words = <<>>
          => /\ last_feedback \in Feedbacks /\ last_feedback # FiveGreens
             /\ game_status' = "LOST" /\ pc' = "done"
             /\ current_guess' = current_guess /\ submitted' = submitted
       /\ game_status = "LOST"
          => current_guess' = current_guess /\ submitted' = submitted]_vars

\* C11's case: a later round emptied a list that had words left
C11_Witness ==
    /\ game_status = "LOST" /\ pc = "done"
    /\ Len(history) >= 2 /\ possible_words = <<>>

\* C12: the status becomes WON exactly in a step that receives WORD_LENGTH
\* Greens; that step does not filter the list or count an attempt, the loop
\* stops there, and nothing is submitted afterwards.
C12_Win ==
    [][/\ (game_status' = "WON" /\ game_status # "WON") <=> Receives(FiveGreens)
       /\ Receives(FiveGreens)
          => /\ possible_words' = possible_words /\ history' = history
             /\ attempt_number' = attempt_number /\ pc' = "done"
       /\ game_status = "WON"
          => /\ submitted' = submitted /\ possible_words' = possible_words
             /\ attempt_number' = attempt_number]_vars

\* C12's case: a win in a later round, with candidates left unfiltered
C12_Witness ==
    /\ game_status = "WON" /\ pc = "done" /\ last_feedback = FiveGreens
    /\ attempt_number >= 2 /\ Len(possible_words) >= 2

Terminal == {"WON", "LOST", "ERROR"}

\* what a round can change
roundVars ==
    <<submitted, game_status, possible_words, current_guess, attempt_number>>

\* C13: once MAX_ATTEMPTS rounds have completed, the loop stops with the
\* attempt counter at MAX_ATTEMPTS and the status still PLAYING, and nothing
\* more is submitted.
C13_OutOfAttempts ==
    [][/\ attempt_number' = MAX_ATTEMPTS => game_status' = "PLAYING"
       /\ attempt_number = MAX_ATTEMPTS
          => /\ pc = "loop" /\ pc' = "done"
             /\ attempt_number' = MAX_ATTEMPTS /\ submitted' = submitted
             /\ Len(submitted) = MAX_ATTEMPTS]_vars

\* C13's case: start_game has returned after MAX_ATTEMPTS rounds
C13_Witness ==
    /\ pc = "done" /\ attempt_number = MAX_ATTEMPTS
    /\ game_status = "PLAYING" /\ possible_words # <<>>

\* C14: once the status is WON, LOST or ERROR, nothing is submitted and the
\* status, the candidate list, the current guess and the attempt counter do
\* not change again.
C14_TerminalAbsorbing ==
    [][(game_status \in Terminal) => UNCHANGED roundVars]_vars

\* C14's case: the game has ended WON or ERROR after some rounds, with
\* candidates left
C14_Witness ==
    /\ game_status \in Terminal /\ pc = "done"
    /\ attempt_number >= 1 /\ possible_words # <<>>

\* the dictionary words, in dictionary order, that pass the first k rounds
Survivors(k) ==
    SelectSeq(dictionary, LAMBDA w : \A j \in 1..k : PassesRound(w, j))

\* a round has ended with the status still PLAYING
RoundEndedPlaying ==
    /\ game_status = "PLAYING" /\ pc \in {"loop", "done"}
    /\ history # <<>>

\* C15: after a round that ends PLAYING the current guess is the first word,
\* in dictionary order, among the survivors; every guess submitted is fixed
\* by the dictionary and the feedbacks before it: the first is
\* OPTIMAL_FIRST_GUESS, the (k+1)-th the first survivor of rounds 1..k.
C15_DeterministicGuess ==
    /\ RoundEndedPlaying => current_guess = Survivors(Len(history))[1]
    /\ \A k \in 1..Len(history) : history[k][1] = submitted[k]
    /\ \A k \in 1..Len(submitted) :
          submitted[k] = IF k = 1 THEN OPTIMAL_FIRST_GUESS
                         ELSE Survivors(k - 1)[1]

\* C15's case: three guesses are out, the second is not the first word of
\* the dictionary (the filter passed over words), and two survivors are left
\* to choose from
C15_Witness ==
    /\ Len(submitted) = 3 /\ Len(possible_words) >= 2
    /\ \E n \in 2..Len(dictionary) :
          /\ dictionary[n] = submitted[2]
          /\ \A m \in 1..(n - 1) : dictionary[m] # submitted[2]

\* rounds that have completed with the status still PLAYING: every guess
\* submitted but the one of a round under way or ended WON, LOST or ERROR
RoundsCompleted ==
    IF submitted = <<>> THEN 0
    ELSE IF pc \in {"filter", "select"} \/ game_status # "PLAYING"
    THEN Len(submitted) - 1
    ELSE Len(submitted)

\* C16: the attempt counter stays within 0..MAX_ATTEMPTS and equals the
\* number of rounds completed with the status still PLAYING; at most
\* MAX_ATTEMPTS guesses are submitted in a game.
C16_AttemptCounter ==
    /\ attempt_number \in 0..MAX_ATTEMPTS
    /\ attempt_number = RoundsCompleted
    /\ Len(submitted) <= MAX_ATTEMPTS

\* C16's case: the sixth guess has been submitted
C16_Witness ==
    /\ Len(submitted) = MAX_ATTEMPTS /\ pc = "filter"
    /\ attempt_number = MAX_ATTEMPTS - 1

\* possible_words has just been filtered with current_guess and last_feedback
JustFiltered == pc = "select" \/ (pc = "direct" /\ calls > 0)

\* letter c is Grey somewhere in guess g and Green or Yellow nowhere
OnlyGrey(c, g, fb) == Grey(c, g, fb) > 0 /\ NonGrey(c, g, fb) = 0

Salet == <<"s", "a", "l", "e", "t">>

Crane == <<"c", "r", "a", "n", "e">>

Trace == <<"t", "r", "a", "c", "e">>

\* C17: after filtering with guess g and feedback f every surviving word has
\* g[i] at every Green position i and holds no letter that is Grey in g and
\* Green or Yellow nowhere in g; the list salet, crane, trace filtered with
\* salet and GRRRR is the empty list.
C17_SurvivorsMatch ==
    JustFiltered =>
        /\ \A n \in 1..Len(possible_words) :
              /\ \A i \in Positions :
                    last_feedback[i] = "G"
                        => possible_words[n][i] = current_guess[i]
              /\ \A i \in Positions :
                    OnlyGrey(current_guess[i], current_guess, last_feedback)
                        => ~In(current_guess[i], possible_words[n])
        /\ /\ dictionary = <<Salet, Crane, Trace>>
           /\ current_guess = Salet
           /\ last_feedback = <<"G", "R", "R", "R", "R">>
           => possible_words = <<>>

\* C17's case: the game filters salet, crane, trace with salet and GRRRR
C17_Witness ==
    /\ pc = "select"
    /\ dictionary = <<Salet, Crane, Trace>>
    /\ history = << <<Salet, <<"G", "R", "R", "R", "R">> >> >>

\* C18: when every submission call returns or raises, start_game stops, for
\* every dictionary and every sequence of feedbacks, having submitted at most
\* MAX_ATTEMPTS guesses.
C18_Terminates ==
    /\ <>(pc = "done")
    /\ [](Len(submitted) <= MAX_ATTEMPTS)

\* C18's case: start_game has returned after the full MAX_ATTEMPTS rounds
C18_Witness ==
    /\ pc = "done" /\ Len(submitted) = MAX_ATTEMPTS
    /\ Len(history) = MAX_ATTEMPTS

\* every feedback the list was filtered with, and the one just received, is
\* the score of its guess against the secret s
Truthful(s) ==
    /\ \A k \in 1..Len(history) : history[k][2] = Score(s, history[k][1])
    /\ pc = "filter" => last_feedback = Score(s, current_guess)

\* C19: for a secret of the dictionary, as long as every feedback is the
\* score of the submitted guess against it, the secret is in the candidate
\* list whenever the status is PLAYING, and the status is not LOST.
C19_SecretPreserved ==
    \A n \in 1..Len(dictionary) :
        Truthful(dictionary[n]) /\ pc \in {"loop", "filter", "select", "done"}
            => /\ game_status = "PLAYING" => In(dictionary[n], possible_words)
               /\ game_status # "LOST"

\* C19's case: three truthful rounds have removed words and kept the secret
C19_Witness ==
    /\ Len(history) = 3 /\ game_status = "PLAYING"
    /\ Len(possible_words) < Len(dictionary) - 2
    /\ \E n \in 1..Len(dictionary) : Truthful(dictionary[n])

\* no word occurs twice in the sequence
NoRepeat(seq) ==
    \A i, j \in 1..Len(seq) : i # j => seq[i] # seq[j]

\* C20: no word is submitted twice in a game, and from the second round on
\* every filtering makes the candidate list strictly shorter.
C20_NoRepeatedGuess ==
    [][/\ NoRepeat(submitted')
       /\ pc = "filter" /\ history # <<>>
          => Len(possible_words') < Len(possible_words)]_vars

\* C20's case: four different guesses are out and the list has shrunk in
\* every round
C20_Witness ==
    /\ Len(submitted) = 4 /\ Len(history) = 4
    /\ possible_words # <<>>

====
